---------------------------- MODULE Spec2Model ----------------------------
(***************************************************************************)
(* A model of streamlit_app.py, the "Advanced SEO Content Optimizer".      *)
(*                                                                         *)
(* Every browser session owns a Streamlit session state (content,          *)
(* seo_analysis, recommendations, the three pasted data fields and the     *)
(* password gate).  A script run executes main() from the top; it suspends *)
(* at the network calls (the GET to the reader service with its urllib3    *)
(* retries, the two POSTs to the LLM API) and at time.sleep(3).  Each      *)
(* action below is the code between two suspension points.                 *)
(*                                                                         *)
(* Strings are modelled as sequences of tokens, so that startswith and     *)
(* truthiness are computed, not assumed.  Time is a discrete clock kept    *)
(* as ages (seconds since an event, saturating at MaxAge), which keeps the *)
(* state space finite without ever stopping the clock.                     *)
(***************************************************************************)
EXTENDS Integers, Sequences, FiniteSets, TLC

VARIABLES
    sessions,             \* the browser sessions that are connected
    runBudget,            \* button-triggered runs explored per session
    apiKey,               \* whether OPENROUTER_API_KEY is set in the process environment
    password_correct,     \* st.session_state["password_correct"]: "absent", "False", "True"
    password,             \* st.session_state["password"]: "absent" or the entered text
    entered,              \* the text last typed into the password input ("none" before)
    url,                  \* the value of the URL text input
    organic_kw_ranks,     \* st.session_state.organic_kw_ranks
    semrush_site_audit,   \* st.session_state.semrush_site_audit
    technical_seo_audit,  \* st.session_state.technical_seo_audit
    pressed,              \* what st.button returned in the latest script run
    content,              \* st.session_state.content
    seo_analysis,         \* st.session_state.seo_analysis
    recommendations,      \* st.session_state.recommendations
    origin,               \* the run that last wrote each of the three stage results
    pc,                   \* where the session's script is suspended
    attempt,              \* GET attempts issued by the current call of http.get
    response,             \* response.text held while get_jina_reader_content sleeps
    sleepLeft,            \* seconds of time.sleep(3) still to elapse
    sinceLastGet,         \* seconds since the session's latest GET to the reader
    gap,                  \* sinceLastGet as it was when the latest call issued its first GET
    fetchOk,              \* how the latest call of get_jina_reader_content really ended
    run,                  \* number of runs the session has started
    ui                    \* the last st.success / st.warning / st.error of the latest script run

vars == << sessions, runBudget, apiKey, password_correct, password, entered, url, organic_kw_ranks,
           semrush_site_audit, technical_seo_audit, pressed, content, seo_analysis,
           recommendations, origin, pc, attempt, response, sleepLeft, sinceLastGet,
           gap, fetchOk, run, ui >>

---------------------------------------------------------------------------
(* Bounds of the model *)

Sessions == {"s1", "s2"}

\* button-triggered runs explored per session, with one session
MaxRuns == 2

\* the same when two sessions run side by side
MaxConcurrentRuns == 1

\* ages saturate here: "MaxAge seconds ago or earlier, or never"
MaxAge == 4

(* Program constants *)

\* Retry(total=3)
MaxRetries == 3

\* time.sleep(3)
SleepSeconds == 3

\* the reader's minimum interval ("3-second delay between requests")
MinInterval == 3

---------------------------------------------------------------------------
(* Strings *)

Empty == << >>

\* Python's None, as a value distinct from every string
None == << "<None>" >>

\* Python truthiness of an optional string: None and "" are falsy
Truthy(v) == v # None /\ v # Empty

\* str.startswith
StartsWith(text, prefix) == Len(text) > 0 /\ text[1] = prefix

FailedPrefix == "Failed to fetch content"

\* f"Failed to fetch content: {str(e)}"
FailureDescription(e) == << FailedPrefix, ": ", e >>

\* texts the reader service may return for a page
PageTexts == { Empty,
               << "page text" >>,
               << FailedPrefix, " is what this page is about" >> }

\* the exceptions http.get and raise_for_status raise
Exceptions == { "HTTPError", "ConnectionError", "RetryError" }

\* the subclasses of requests.exceptions.RequestException among them
RequestException == { "HTTPError", "ConnectionError", "RetryError" }

CaughtOnlyHTTPError(e) == e = "HTTPError"

\* except requests.exceptions.RequestException as e
Caught(e) == e \in RequestException

\* what the LLM API may answer with status 200
LlmTexts == { << "llm text" >>, Empty }

Msg(kind, text) == [kind |-> kind, text |-> text]

NoMsg == Msg("none", Empty)
LoggedIn == Msg("success", << "Logged in successfully!" >>)
PasswordIncorrect == Msg("error", << "Password incorrect" >>)
PleaseEnter == Msg("warning", << "Please enter a URL and paste all required data" >>)
ContentFetched == Msg("success", << "Content fetched successfully!" >>)
SeoAnalyzed == Msg("success", << "SEO data analyzed successfully!" >>)
RecsGenerated == Msg("success", << "Recommendations generated successfully!" >>)
FailedToAnalyze == Msg("error", << "Failed to analyze SEO data." >>)
FailedToRecommend == Msg("error", << "Failed to generate recommendations." >>)
Traceback == Msg("exception", << "uncaught exception" >>)

\* values a text widget may hold
FieldValues == { "", "data" }

\* the submissions explored: everything filled in, or exactly one input empty
Submissions == { s \in [ url : {"", "https://example.com"},
                         organic_kw_ranks : FieldValues,
                         semrush_site_audit : FieldValues,
                         technical_seo_audit : FieldValues ] :
                   Cardinality({ k \in DOMAIN s : s[k] = "" }) <= 1 }

---------------------------------------------------------------------------
(* Initial state *)

InitSession ==
    /\ apiKey \in BOOLEAN
    /\ password_correct = [s \in Sessions |-> "absent"]
    /\ password = [s \in Sessions |-> "absent"]
    /\ entered = [s \in Sessions |-> "none"]
    /\ url = [s \in Sessions |-> ""]
    /\ organic_kw_ranks = [s \in Sessions |-> ""]
    /\ semrush_site_audit = [s \in Sessions |-> ""]
    /\ technical_seo_audit = [s \in Sessions |-> ""]
    /\ pressed = [s \in Sessions |-> FALSE]
    /\ content = [s \in Sessions |-> Empty]
    /\ seo_analysis = [s \in Sessions |-> Empty]
    /\ recommendations = [s \in Sessions |-> Empty]
    /\ origin = [s \in Sessions |-> [content |-> 0, seo_analysis |-> 0, recommendations |-> 0]]
    /\ pc = [s \in Sessions |-> "idle"]
    /\ attempt = [s \in Sessions |-> 0]
    /\ response = [s \in Sessions |-> Empty]
    /\ sleepLeft = [s \in Sessions |-> 0]
    /\ sinceLastGet = [s \in Sessions |-> MaxAge]
    /\ gap = [s \in Sessions |-> MaxAge]
    /\ fetchOk = [s \in Sessions |-> "none"]
    /\ run = [s \in Sessions |-> 0]
    /\ ui = [s \in Sessions |-> NoMsg]

\* one browser session
Init == sessions = {"s1"} /\ runBudget = MaxRuns /\ InitSession


\* two browser sessions open at the same time
InitConcurrent == sessions = Sessions /\ runBudget = MaxConcurrentRuns /\ InitSession

---------------------------------------------------------------------------
(* check_password *)

Secret == "secret"

Passwords == { "secret", "wrong" }

PasswordMatchesAlways(p) == TRUE

\* st.session_state["password"] == st.secrets["password"]
PasswordMatches(p) == p = Secret

\* the password input exists only in the branches of check_password that return False
PasswordWidgetRendered(s) == password_correct[s] # "True"

\* check_password() returns True
CheckPassword(s) == password_correct[s] = "True"

---------------------------------------------------------------------------
(* main: the conditions *)

InputsCompleteUrlOnly(sub) == sub.url # ""

\* if url and organic_kw_ranks and semrush_site_audit and technical_seo_audit
InputsComplete(sub) ==
    /\ sub.url # ""
    /\ sub.organic_kw_ranks # ""
    /\ sub.semrush_site_audit # ""
    /\ sub.technical_seo_audit # ""

\* the widget values of the session, as a submission
Submitted(s) == [ url |-> url[s],
                  organic_kw_ranks |-> organic_kw_ranks[s],
                  semrush_site_audit |-> semrush_site_audit[s],
                  technical_seo_audit |-> technical_seo_audit[s] ]

\* if st.session_state.content and not content.startswith("Failed to fetch content")
ContentLooksFetched(value) == Truthy(value) /\ ~StartsWith(value, FailedPrefix)

StageSucceededAlways(result) == TRUE

\* if seo_analysis: / if recommendations:
StageSucceeded(result) == Truthy(result)

\* the read access the page gives to the stored results (the three st.text_area at the end)
Displayed(s) ==
    { k \in {"content", "seo_analysis", "recommendations"} :
        CASE k = "content" -> Truthy(content[s])
          [] k = "seo_analysis" -> Truthy(seo_analysis[s])
          [] k = "recommendations" -> Truthy(recommendations[s]) }

---------------------------------------------------------------------------
(* Requests in flight *)

ReaderRequestInFlight(s) == pc[s] = "get"

LlmRequestInFlight(s) == pc[s] \in {"analyze", "recommend"}

\* the script of the session is inside a button-triggered run
InRun(s) == pc[s] # "idle"

---------------------------------------------------------------------------
(* Actions *)

Min(a, b) == IF a < b THEN a ELSE b
Max(a, b) == IF a > b THEN a ELSE b

\* one second passes, for every session
Tick ==
    /\ sinceLastGet' = [s \in Sessions |-> Min(sinceLastGet[s] + 1, MaxAge)]
    /\ sleepLeft' = [s \in Sessions |-> Max(sleepLeft[s] - 1, 0)]
    /\ UNCHANGED << sessions, runBudget, apiKey, password_correct, password, entered, url, organic_kw_ranks,
                    semrush_site_audit, technical_seo_audit, pressed, content,
                    seo_analysis, recommendations, origin, pc, attempt, response, gap,
                    fetchOk, run, ui >>

\* the widgets are read and the three data fields written to the session state
ReadWidgets(s, sub, button) ==
    /\ url' = [url EXCEPT ![s] = sub.url]
    /\ organic_kw_ranks' = [organic_kw_ranks EXCEPT ![s] = sub.organic_kw_ranks]
    /\ semrush_site_audit' = [semrush_site_audit EXCEPT ![s] = sub.semrush_site_audit]
    /\ technical_seo_audit' = [technical_seo_audit EXCEPT ![s] = sub.technical_seo_audit]
    /\ pressed' = [pressed EXCEPT ![s] = button]

\* the user enters a password: the callback password_entered, then the script run it triggers
EnterPassword(s) ==
    /\ pc[s] = "idle"
    /\ PasswordWidgetRendered(s)
    /\ \E p \in Passwords :
         /\ entered' = [entered EXCEPT ![s] = p]
         /\ IF PasswordMatches(p)
            THEN /\ password_correct' = [password_correct EXCEPT ![s] = "True"]
                 /\ password' = [password EXCEPT ![s] = "absent"]
                 /\ ui' = [ui EXCEPT ![s] = LoggedIn]
            ELSE /\ password_correct' = [password_correct EXCEPT ![s] = "False"]
                 /\ password' = [password EXCEPT ![s] = p]
                 /\ ui' = [ui EXCEPT ![s] = PasswordIncorrect]
    /\ pressed' = [pressed EXCEPT ![s] = FALSE]
    /\ UNCHANGED << sessions, runBudget, apiKey, url, organic_kw_ranks, semrush_site_audit,
                    technical_seo_audit, content, seo_analysis, recommendations, origin,
                    pc, attempt, response, sleepLeft, sinceLastGet, gap, fetchOk, run >>

\* a script run triggered by editing a widget: the button returns False
Rerun(s) ==
    /\ pc[s] = "idle"
    /\ CheckPassword(s)
    /\ \E sub \in Submissions : ReadWidgets(s, sub, FALSE)
    /\ ui' = [ui EXCEPT ![s] = LoggedIn]
    /\ UNCHANGED << sessions, runBudget, apiKey, password_correct, password, entered, content, seo_analysis,
                    recommendations, origin, pc, attempt, response, sleepLeft,
                    sinceLastGet, gap, fetchOk, run >>

\* the button is pressed with an incomplete submission: st.warning
PressRejected(s) ==
    /\ pc[s] = "idle"
    /\ CheckPassword(s)
    /\ \E sub \in Submissions :
         /\ ~InputsComplete(sub)
         /\ ReadWidgets(s, sub, TRUE)
    /\ ui' = [ui EXCEPT ![s] = PleaseEnter]
    /\ UNCHANGED << sessions, runBudget, apiKey, password_correct, password, entered, content, seo_analysis,
                    recommendations, origin, pc, attempt, response, sleepLeft,
                    sinceLastGet, gap, fetchOk, run >>

\* a button press that skips the fetch when the previous run stored fetched content
PressButtonResuming(s) ==
    /\ pc[s] = "idle"
    /\ CheckPassword(s)
    /\ run[s] < runBudget
    /\ \E sub \in Submissions :
         /\ InputsComplete(sub)
         /\ ReadWidgets(s, sub, TRUE)
    /\ run' = [run EXCEPT ![s] = @ + 1]
    /\ IF ContentLooksFetched(content[s]) /\ apiKey
       THEN /\ pc' = [pc EXCEPT ![s] = "analyze"]
            /\ origin' = [origin EXCEPT ![s].content = run[s] + 1]
            /\ ui' = [ui EXCEPT ![s] = ContentFetched]
            /\ UNCHANGED << attempt, gap, sinceLastGet, fetchOk >>
       ELSE /\ pc' = [pc EXCEPT ![s] = "get"]
            /\ attempt' = [attempt EXCEPT ![s] = 1]
            /\ gap' = [gap EXCEPT ![s] = sinceLastGet[s]]
            /\ sinceLastGet' = [sinceLastGet EXCEPT ![s] = 0]
            /\ fetchOk' = [fetchOk EXCEPT ![s] = "pending"]
            /\ ui' = [ui EXCEPT ![s] = LoggedIn]
            /\ UNCHANGED origin
    /\ UNCHANGED << sessions, runBudget, apiKey, password_correct, password, entered, content,
                    seo_analysis, recommendations, response, sleepLeft >>

\* the button is pressed with a complete submission: get_jina_reader_content
\* is called and http.get issues the first GET
PressButton(s) ==
    /\ pc[s] = "idle"
    /\ CheckPassword(s)
    /\ run[s] < runBudget
    /\ \E sub \in Submissions :
         /\ InputsComplete(sub)
         /\ ReadWidgets(s, sub, TRUE)
    /\ run' = [run EXCEPT ![s] = @ + 1]
    /\ pc' = [pc EXCEPT ![s] = "get"]
    /\ attempt' = [attempt EXCEPT ![s] = 1]
    /\ gap' = [gap EXCEPT ![s] = sinceLastGet[s]]
    /\ sinceLastGet' = [sinceLastGet EXCEPT ![s] = 0]
    /\ fetchOk' = [fetchOk EXCEPT ![s] = "pending"]
    /\ ui' = [ui EXCEPT ![s] = LoggedIn]
    /\ UNCHANGED << sessions, runBudget, apiKey, password_correct, password, entered, content, seo_analysis,
                    recommendations, origin, response, sleepLeft >>

\* an exception leaves main: the script run ends with a traceback
Crash(s) ==
    /\ pc' = [pc EXCEPT ![s] = "idle"]
    /\ ui' = [ui EXCEPT ![s] = Traceback]
    /\ attempt' = [attempt EXCEPT ![s] = 0]
    /\ response' = [response EXCEPT ![s] = Empty]

\* get_jina_reader_content returns value; main stores it and goes on to the
\* analysis stage or reports the failed fetch
ReturnFromFetch(s, value, outcome) ==
    /\ content' = [content EXCEPT ![s] = value]
    /\ origin' = [origin EXCEPT ![s].content = run[s]]
    /\ fetchOk' = [fetchOk EXCEPT ![s] = outcome]
    /\ attempt' = [attempt EXCEPT ![s] = 0]
    /\ response' = [response EXCEPT ![s] = Empty]
    /\ IF ContentLooksFetched(value)
       THEN IF apiKey
            THEN /\ pc' = [pc EXCEPT ![s] = "analyze"]
                 /\ ui' = [ui EXCEPT ![s] = ContentFetched]
            ELSE /\ pc' = [pc EXCEPT ![s] = "idle"]
                 /\ ui' = [ui EXCEPT ![s] = FailedToAnalyze]
       ELSE /\ pc' = [pc EXCEPT ![s] = "idle"]
            /\ ui' = [ui EXCEPT ![s] = Msg("error", value)]

\* http.get or raise_for_status raises e inside the try block
Raise(s, e) ==
    IF Caught(e)
    THEN /\ ReturnFromFetch(s, FailureDescription(e), "failed")
    ELSE /\ Crash(s)
         /\ fetchOk' = [fetchOk EXCEPT ![s] = "raised"]
         /\ UNCHANGED << content, origin >>

\* the reader answers 2xx: raise_for_status passes and the call sleeps
GetOk(s) ==
    /\ pc[s] = "get"
    /\ \E text \in PageTexts : response' = [response EXCEPT ![s] = text]
    /\ pc' = [pc EXCEPT ![s] = "sleep"]
    /\ sleepLeft' = [sleepLeft EXCEPT ![s] = SleepSeconds]
    /\ UNCHANGED << sessions, runBudget, apiKey, password_correct, password, entered, url, organic_kw_ranks,
                    semrush_site_audit, technical_seo_audit, pressed, content,
                    seo_analysis, recommendations, origin, attempt, sinceLastGet, gap,
                    fetchOk, run, ui >>

\* a status of status_forcelist or a connection error, with retries left:
\* urllib3 issues the GET again
GetRetry(s) ==
    /\ pc[s] = "get"
    /\ attempt[s] <= MaxRetries
    /\ attempt' = [attempt EXCEPT ![s] = @ + 1]
    /\ sinceLastGet' = [sinceLastGet EXCEPT ![s] = 0]
    /\ UNCHANGED << sessions, runBudget, apiKey, password_correct, password, entered, url, organic_kw_ranks,
                    semrush_site_audit, technical_seo_audit, pressed, content,
                    seo_analysis, recommendations, origin, pc, response, sleepLeft, gap,
                    fetchOk, run, ui >>

\* the same with no retry left: http.get raises RetryError or ConnectionError
GetExhausted(s) ==
    /\ pc[s] = "get"
    /\ attempt[s] > MaxRetries
    /\ \E e \in {"RetryError", "ConnectionError"} : Raise(s, e)
    /\ UNCHANGED << sessions, runBudget, apiKey, password_correct, password, entered, url, organic_kw_ranks,
                    semrush_site_audit, technical_seo_audit, pressed, seo_analysis,
                    recommendations, sleepLeft, sinceLastGet, gap, run >>

\* an error status outside status_forcelist: raise_for_status raises HTTPError
GetErrorStatus(s) ==
    /\ pc[s] = "get"
    /\ Raise(s, "HTTPError")
    /\ UNCHANGED << sessions, runBudget, apiKey, password_correct, password, entered, url, organic_kw_ranks,
                    semrush_site_audit, technical_seo_audit, pressed, seo_analysis,
                    recommendations, sleepLeft, sinceLastGet, gap, run >>

\* the reader accepts the connection and never answers: http.get is called
\* without a timeout and blocks for good
GetNoResponse(s) ==
    /\ pc[s] = "get"
    /\ pc' = [pc EXCEPT ![s] = "hung"]
    /\ UNCHANGED << sessions, runBudget, apiKey, password_correct, password, entered, url, organic_kw_ranks,
                    semrush_site_audit, technical_seo_audit, pressed, content,
                    seo_analysis, recommendations, origin, attempt, response, sleepLeft,
                    sinceLastGet, gap, fetchOk, run, ui >>

\* time.sleep(3) is over: return response.text
WakeUp(s) ==
    /\ pc[s] = "sleep"
    /\ sleepLeft[s] = 0
    /\ ReturnFromFetch(s, response[s], "ok")
    /\ UNCHANGED << sessions, runBudget, apiKey, password_correct, password, entered, url, organic_kw_ranks,
                    semrush_site_audit, technical_seo_audit, pressed, seo_analysis,
                    recommendations, sleepLeft, sinceLastGet, gap, run >>

\* what analyze_seo_data and generate_recommendations return once the API answered:
\* the message content on status 200, None otherwise
LlmResults == LlmTexts \cup { None }

\* analyze_seo_data returns; on a result main stores it and calls generate_recommendations
AnalysisReturns(s) ==
    /\ pc[s] = "analyze"
    /\ \E result \in LlmResults :
         IF StageSucceeded(result)
         THEN /\ seo_analysis' = [seo_analysis EXCEPT ![s] = result]
              /\ origin' = [origin EXCEPT ![s].seo_analysis = run[s]]
              /\ pc' = [pc EXCEPT ![s] = "recommend"]
              /\ ui' = [ui EXCEPT ![s] = SeoAnalyzed]
         ELSE /\ pc' = [pc EXCEPT ![s] = "idle"]
              /\ ui' = [ui EXCEPT ![s] = FailedToAnalyze]
              /\ UNCHANGED << seo_analysis, origin >>
    /\ UNCHANGED << sessions, runBudget, apiKey, password_correct, password, entered, url, organic_kw_ranks,
                    semrush_site_audit, technical_seo_audit, pressed, content,
                    recommendations, attempt, response, sleepLeft, sinceLastGet, gap,
                    fetchOk, run >>

\* generate_recommendations returns
RecommendationsReturn(s) ==
    /\ pc[s] = "recommend"
    /\ \E result \in LlmResults :
         IF StageSucceeded(result)
         THEN /\ recommendations' = [recommendations EXCEPT ![s] = result]
              /\ origin' = [origin EXCEPT ![s].recommendations = run[s]]
              /\ ui' = [ui EXCEPT ![s] = RecsGenerated]
         ELSE /\ ui' = [ui EXCEPT ![s] = FailedToRecommend]
              /\ UNCHANGED << recommendations, origin >>
    /\ pc' = [pc EXCEPT ![s] = "idle"]
    /\ UNCHANGED << sessions, runBudget, apiKey, password_correct, password, entered, url, organic_kw_ranks,
                    semrush_site_audit, technical_seo_audit, pressed, content,
                    seo_analysis, attempt, response, sleepLeft, sinceLastGet, gap,
                    fetchOk, run >>

\* requests.post raises, or the 200 body has no choices[0].message.content:
\* nothing in main catches it
LlmCallRaises(s) ==
    /\ pc[s] \in {"analyze", "recommend"}
    /\ Crash(s)
    /\ UNCHANGED << sessions, runBudget, apiKey, password_correct, password, entered, url, organic_kw_ranks,
                    semrush_site_audit, technical_seo_audit, pressed, content,
                    seo_analysis, recommendations, origin, sleepLeft, sinceLastGet, gap,
                    fetchOk, run >>

Next ==
    \/ Tick
    \/ \E s \in sessions : EnterPassword(s)
    \/ \E s \in sessions : Rerun(s)
    \/ \E s \in sessions : PressRejected(s)
    \/ \E s \in sessions : PressButton(s)
    \/ \E s \in sessions : GetOk(s)
    \/ \E s \in sessions : GetRetry(s)
    \/ \E s \in sessions : GetExhausted(s)
    \/ \E s \in sessions : GetErrorStatus(s)
    \/ \E s \in sessions : GetNoResponse(s)
    \/ \E s \in sessions : WakeUp(s)
    \/ \E s \in sessions : AnalysisReturns(s)
    \/ \E s \in sessions : RecommendationsReturn(s)
    \/ \E s \in sessions : LlmCallRaises(s)

Spec == Init /\ [][Next]_vars

ConcurrentSpec == InitConcurrent /\ [][Next]_vars

\* a GET in flight is answered one way or another (the reader staying silent
\* included), a sleeping call wakes up, the LLM API answers, and time passes;
\* the user is not obliged to do anything
Fairness ==
    /\ WF_vars(Tick)
    /\ \A s \in Sessions :
         /\ WF_vars(GetOk(s) \/ GetRetry(s) \/ GetExhausted(s) \/ GetErrorStatus(s)
                       \/ GetNoResponse(s))
         /\ WF_vars(WakeUp(s))
         /\ WF_vars(AnalysisReturns(s) \/ RecommendationsReturn(s) \/ LlmCallRaises(s))

FairSpec == Init /\ [][Next]_vars /\ Fairness

---------------------------------------------------------------------------
(* Properties *)

IsFailureDescription(v) == \E e \in Exceptions : v = FailureDescription(e)

SomeInputEmpty(s) ==
    \/ url[s] = ""
    \/ organic_kw_ranks[s] = ""
    \/ semrush_site_audit[s] = ""
    \/ technical_seo_audit[s] = ""

\* C1: whenever a call of get_jina_reader_content issues its request, at least
\* MinInterval seconds have passed since the session's previous request to the
\* reader, however the earlier call ended.
ReaderCallsSpaced == \A s \in Sessions : gap[s] >= MinInterval

\* C2: a reader fetch that fails (the GET ends without a 2xx response) is not
\* raised out of get_jina_reader_content: the step that ends it stores the failure
\* description as the returned value, records a failed fetch, and ends the run with
\* that description shown by st.error.
FailedFetchIsReported ==
    [][\A s \in Sessions :
          (pc[s] = "get" /\ pc'[s] \notin {"get", "sleep", "hung"})
              => /\ fetchOk'[s] = "failed"
                 /\ IsFailureDescription(content'[s])
                 /\ origin'[s].content = run'[s]
                 /\ pc'[s] = "idle"
                 /\ ui'[s] = Msg("error", content'[s])]_vars

FailedFetchShown ==
    \E s \in Sessions :
        /\ fetchOk[s] = "failed"
        /\ pc[s] = "idle"
        /\ content[s] = FailureDescription("RetryError")
        /\ ui[s] = Msg("error", content[s])

\* C3: a script run in which the button is pressed while the URL or one of the
\* three data fields is empty starts nothing: the session stays idle (no reader
\* or LLM request in flight), no run is counted, and content, seo_analysis and
\* recommendations are what they were.
EmptySubmissionRejected ==
    [][\A s \in Sessions :
          (pressed'[s] /\ SomeInputEmpty(s)')
              => /\ pc[s] = "idle" /\ pc'[s] = "idle"
                 /\ ~ReaderRequestInFlight(s)' /\ ~LlmRequestInFlight(s)'
                 /\ run'[s] = run[s]
                 /\ content'[s] = content[s]
                 /\ seo_analysis'[s] = seo_analysis[s]
                 /\ recommendations'[s] = recommendations[s]
                 /\ origin'[s] = origin[s]]_vars

RejectedAfterResults ==
    \E s \in Sessions :
        /\ pressed[s] /\ SomeInputEmpty(s)
        /\ ui[s] = PleaseEnter
        /\ Truthy(content[s]) /\ Truthy(seo_analysis[s]) /\ Truthy(recommendations[s])

\* C4: a call of get_jina_reader_content issues at most MaxRetries + 1 GETs and,
\* whatever the reader does, eventually returns (the script moves on from the
\* fetch).
FetchTerminates ==
    /\ [](\A s \in Sessions : attempt[s] <= MaxRetries + 1)
    /\ \A s \in Sessions :
         (pc[s] = "get") ~> (pc[s] \in {"idle", "analyze", "recommend"})

\* C5: once a run is over, every stage result the page shows was written by the
\* most recent run.
ResultsFromLatestRun ==
    \A s \in Sessions :
        pc[s] = "idle" => \A k \in Displayed(s) : origin[s][k] = run[s]

\* C6 as stated: when the latest run completed the content fetch but not the
\* recommendations, a script run with the same inputs does not issue the reader
\* request again.
CompletedFetchNotRepeated ==
    [][\A s \in Sessions :
          ( /\ pc[s] = "idle"
            /\ run[s] > 0
            /\ fetchOk[s] = "ok" /\ ContentLooksFetched(content[s])
            /\ origin[s].content = run[s]
            /\ origin[s].recommendations # run[s]
            /\ Submitted(s)' = Submitted(s) )
              => ~ReaderRequestInFlight(s)']_vars

\* C6 as amended: a run never resumes.  Whatever earlier runs completed and
\* stored, a session leaves idle only by issuing the first GET of a new call of
\* get_jina_reader_content, and the analysis and recommendation stages only ever
\* work on content fetched by the run they belong to.
RunRestartsFromFetch ==
    /\ [](\A s \in Sessions :
            pc[s] \in {"analyze", "recommend"} => origin[s].content = run[s])
    /\ [][\A s \in Sessions :
            (pc[s] = "idle" /\ pc'[s] # "idle")
                => /\ pc'[s] = "get" /\ attempt'[s] = 1
                   /\ fetchOk'[s] = "pending"
                   /\ run'[s] = run[s] + 1]_vars

RefetchAfterCompletedFetch ==
    \E s \in Sessions :
        /\ pc[s] = "get"
        /\ run[s] > 1
        /\ ContentLooksFetched(content[s])
        /\ origin[s].content = run[s] - 1
        /\ origin[s].seo_analysis # run[s] - 1

\* C7: no two sessions have both sent a GET to the reader within the last
\* MinInterval seconds.
ReaderRequestsSerialized ==
    \A s, t \in sessions :
        s # t => ~(sinceLastGet[s] < MinInterval /\ sinceLastGet[t] < MinInterval)

\* C8: the stages of a run go fetch, analysis, recommendations.  The analysis
\* request is in flight only after this run's fetch succeeded, the recommendations
\* request only after this run's analysis returned a result, each stage is entered
\* from the one before it, and seo_analysis / recommendations are written only by
\* their own stage and only with a result.
StagesInOrder ==
    /\ [](\A s \in Sessions :
            /\ pc[s] = "analyze" =>
                   fetchOk[s] = "ok" /\ origin[s].content = run[s]
            /\ pc[s] = "recommend" =>
                   /\ fetchOk[s] = "ok" /\ origin[s].content = run[s]
                   /\ origin[s].seo_analysis = run[s] /\ Truthy(seo_analysis[s]))
    /\ [][\A s \in Sessions :
            /\ (pc'[s] = "get" /\ pc[s] # "get") => pc[s] = "idle"
            /\ (pc'[s] = "sleep" /\ pc[s] # "sleep") => pc[s] = "get"
            /\ (pc'[s] = "analyze" /\ pc[s] # "analyze") => pc[s] = "sleep"
            /\ (pc'[s] = "recommend" /\ pc[s] # "recommend") => pc[s] = "analyze"
            /\ (seo_analysis'[s] # seo_analysis[s]
                  \/ origin'[s].seo_analysis # origin[s].seo_analysis)
                   => pc[s] = "analyze" /\ Truthy(seo_analysis'[s])
            /\ (recommendations'[s] # recommendations[s]
                  \/ origin'[s].recommendations # origin[s].recommendations)
                   => pc[s] = "recommend" /\ Truthy(recommendations'[s])]_vars

AllStagesDone ==
    \E s \in Sessions :
        /\ pc[s] = "idle" /\ run[s] > 0
        /\ ui[s] = RecsGenerated
        /\ origin[s] = [content |-> run[s], seo_analysis |-> run[s],
                        recommendations |-> run[s]]

\* C9: a session whose password_correct is not True is idle, has started no run
\* and holds no stage result; password_correct is True only after the secret was
\* entered, the entered password is then gone from the session state, and
\* password_correct never leaves True.
PasswordGate ==
    /\ [](\A s \in Sessions :
            /\ password_correct[s] # "True" =>
                   /\ ~InRun(s) /\ run[s] = 0
                   /\ content[s] = Empty /\ seo_analysis[s] = Empty
                   /\ recommendations[s] = Empty
            /\ password_correct[s] = "True" =>
                   entered[s] = Secret /\ password[s] = "absent")
    /\ [][\A s \in Sessions :
            password_correct[s] = "True" => password_correct'[s] = "True"]_vars

RunBehindGate ==
    \E s \in Sessions :
        /\ password_correct[s] = "True" /\ password[s] = "absent"
        /\ ReaderRequestInFlight(s)

\* C10: a run reports a failed fetch only if the fetch failed (a fetch that
\* succeeded is never answered with st.error of the content), and the description
\* of a failed fetch is not stored as the page's content.
FailedIffFetchFailed ==
    \A s \in Sessions :
        /\ (fetchOk[s] = "ok" /\ origin[s].content = run[s])
               => ui[s] # Msg("error", content[s])
        /\ fetchOk[s] = "failed" => ~IsFailureDescription(content[s])

============================================================================
